---- MODULE Spec2Model ----
(***************************************************************************)
(* Weather web application: the City table, the cooldown gate and the      *)
(* concurrent refresh cycle (update_weather) of src/main.py, with the      *)
(* CRUD handlers that share the table.                                     *)
(*                                                                         *)
(* Every route handler is an `async def`, so handlers run on one event     *)
(* loop and a handler is interrupted only at an `await`.  The only await   *)
(* that suspends a handler is the await of asyncio.gather in               *)
(* update_weather, so update_weather is two steps (up to the gather, and   *)
(* from the gather's return on) and every other handler is one step.       *)
(*                                                                         *)
(* Time is in whole seconds.  Coordinates and temperatures are integers    *)
(* (floats in the source, only passed through and compared).  A nullable   *)
(* column holds None (<<>>) or Some(v) (<<v>>).  A name is a sequence of   *)
(* one-character strings.                                                  *)
(***************************************************************************)
EXTENDS Integers, Sequences, FiniteSets, TLC

\* ---------------------------------------------------------------- bounds
\* The clock stops at MaxTime.
MaxTime == 900
\* No row id above MaxId is allocated.
MaxId == 2
\* Number of refresh requests that can be in progress at once.
NumRequests == 1

\* ------------------------------------------------------ program constants
\* check_update_cooldown: time_diff.total_seconds() >= 900
Cooldown == 900

\* -------------------------------------------------------- nullable values
None == <<>>

Some(v) == <<v>>

\* ------------------------------------------------------------ environment
Requests == 1 .. NumRequests

\* Steps by which the wall clock (datetime.now()) advances.
ClockSteps == {Cooldown - 1, Cooldown}

\* The temperature the forecast service reports for a place.
Weather(latitude, longitude) == latitude - 40

\* What the forecast service can answer to one GET.
\*   transport: "ok", or the way the transport failed
\*   status:    the HTTP status of the response
\*   has_field: whether the body holds ["current_weather"]["temperature"]
Responses ==
    {[transport |-> "ok", status |-> 200, has_field |-> TRUE],
     [transport |-> "ok", status |-> 200, has_field |-> FALSE],
     [transport |-> "ok", status |-> 500, has_field |-> FALSE],
     [transport |-> "ClientError", status |-> 0, has_field |-> FALSE],
     [transport |-> "TimeoutError", status |-> 0, has_field |-> FALSE]}

\* The rows of europe.csv (name, latitude, longitude); the last one has a
\* latitude out of range.
EuropeCsv ==
    << [name |-> <<"a">>, latitude |-> 48, longitude |-> 2],
       [name |-> <<"b", " ">>, latitude |-> 52, longitude |-> 13],
       [name |-> <<"z">>, latitude |-> 91, longitude |-> 0] >>

\* Form inputs of POST /cities/add.
AddNames == {<<" ", "b">>}

AddLatitudes == {41}

AddLongitudes == {12}

\* ---------------------------------------------------------------- helpers
Min(S) == CHOOSE x \in S : \A y \in S : x <= y

Max(S) == CHOOSE x \in S : \A y \in S : x >= y

RECURSIVE lstrip(_)
lstrip(s) == IF s # <<>> /\ Head(s) = " " THEN lstrip(Tail(s)) ELSE s

RECURSIVE rstrip(_)
rstrip(s) ==
    IF s # <<>> /\ s[Len(s)] = " " THEN rstrip(SubSeq(s, 1, Len(s) - 1)) ELSE s

\* str.strip()
strip(s) == rstrip(lstrip(s))

\* The ids of a set in ascending order (the order of a table scan).
RECURSIVE IdSeq(_)
IdSeq(S) == IF S = {} THEN <<>> ELSE <<Min(S)>> \o IdSeq(S \ {Min(S)})

\* The id an INSERT gets: one more than the largest id in the table (the
\* column is an INTEGER PRIMARY KEY, so ids of deleted rows are reused).
NextRowId(table) == IF DOMAIN table = {} THEN 1 ELSE Max(DOMAIN table) + 1

\* db.query(City).all(): the rows of the table as objects carrying their id.
query_all(table) ==
    LET ids == IdSeq(DOMAIN table)
    IN  [i \in 1 .. Len(ids) |->
            [id |-> ids[i],
             name |-> table[ids[i]].name,
             latitude |-> table[ids[i]].latitude,
             longitude |-> table[ids[i]].longitude,
             temperature |-> table[ids[i]].temperature,
             updated_at |-> table[ids[i]].updated_at]]

\* ------------------------------------------------------------ startup data
\* init_default_cities: the rows of the csv file that pass the range checks,
\* with the name stripped, in file order.
RECURSIVE init_default_cities(_)
init_default_cities(csv) ==
    IF csv = <<>> THEN <<>>
    ELSE LET row == Head(csv)
             valid == /\ -90 <= row.latitude /\ row.latitude <= 90
                      /\ -180 <= row.longitude /\ row.longitude <= 180
         IN  IF valid
             THEN <<[name |-> strip(row.name),
                     latitude |-> row.latitude,
                     longitude |-> row.longitude]>>
                  \o init_default_cities(Tail(csv))
             ELSE init_default_cities(Tail(csv))

\* Variant: the DELETE is committed before the default table is read.
reset_cities_to_default_delete_committed(table, default_cities) ==
    IF default_cities = <<>>
    THEN [raised |-> TRUE, table |-> <<>>]
    ELSE [raised |-> FALSE,
          table |-> [i \in 1 .. Len(default_cities) |->
                        [name |-> default_cities[i].name,
                         latitude |-> default_cities[i].latitude,
                         longitude |-> default_cities[i].longitude,
                         temperature |-> None,
                         updated_at |-> None]]]

\* reset_cities_to_default: the City table after the call and whether it
\* raised.  The DELETE empties the table, so the inserted rows get the ids
\* 1..n; when the default table is empty the handler raises before the
\* commit and closing the session rolls the DELETE back.
reset_cities_to_default(table, default_cities) ==
    IF default_cities = <<>>
    THEN [raised |-> TRUE, table |-> table]
    ELSE [raised |-> FALSE,
          table |-> [i \in 1 .. Len(default_cities) |->
                        [name |-> default_cities[i].name,
                         latitude |-> default_cities[i].latitude,
                         longitude |-> default_cities[i].longitude,
                         temperature |-> None,
                         updated_at |-> None]]]

\* ------------------------------------------------------------ cooldown gate
\* ORDER BY updated_at DESC: NULL sorts below every timestamp.
UpdatedAtLeq(x, y) == x = None \/ (y # None /\ x[1] <= y[1])

\* Variant: ascending order, so a row without updated_at comes first.
last_updated_row_asc(table) ==
    IF DOMAIN table = {} THEN None
    ELSE LET top == CHOOSE i \in DOMAIN table :
                       \A j \in DOMAIN table :
                          UpdatedAtLeq(table[i].updated_at, table[j].updated_at)
         IN  Some(table[top].updated_at)

\* db.query(City.updated_at).order_by(City.updated_at.desc()).first():
\* None when the table has no row, else the one-column row holding the
\* greatest updated_at.
last_updated_row(table) ==
    IF DOMAIN table = {} THEN None
    ELSE LET top == CHOOSE i \in DOMAIN table :
                       \A j \in DOMAIN table :
                          UpdatedAtLeq(table[j].updated_at, table[i].updated_at)
         IN  Some(table[top].updated_at)

\* Variant: a missing timestamp is read as time 0.
check_update_cooldown_epoch(table, t) ==
    LET last_updated == last_updated_row(table)
    IN  IF last_updated = None
        THEN TRUE
        ELSE t - (IF last_updated[1] = None THEN 0 ELSE last_updated[1][1])
                >= Cooldown

\* Variant: the comparison is strict.
check_update_cooldown_strict(table, t) ==
    LET last_updated == last_updated_row(table)
    IN  IF last_updated = None \/ last_updated[1] = None
        THEN TRUE
        ELSE t - last_updated[1][1] > Cooldown

check_update_cooldown(table, t) ==
    LET last_updated == last_updated_row(table)
    IN  IF last_updated = None \/ last_updated[1] = None
        THEN TRUE
        ELSE t - last_updated[1][1] >= Cooldown

\* ----------------------------------------------------------- weather client
HTTPException(code) == [type |-> "HTTPException", status_code |-> code]

\* asyncio.TimeoutError, raised when ClientTimeout(total=10) expires; it is
\* not an aiohttp.ClientError.
TimeoutError == [type |-> "TimeoutError", status_code |-> 0]

\* fetch_weather: what one call ends with, given the service's answer.
fetch_weather(latitude, longitude, response) ==
    IF response.transport = "ClientError"
    THEN [raised |-> Some(HTTPException(500)), value |-> None]
    ELSE IF response.transport = "TimeoutError"
    THEN [raised |-> Some(TimeoutError), value |-> None]
    ELSE IF response.status # 200
    THEN [raised |-> Some(HTTPException(503)), value |-> None]
    ELSE IF ~response.has_field
    THEN [raised |-> Some(HTTPException(500)), value |-> None]
    ELSE [raised |-> None, value |-> Some(Weather(latitude, longitude))]

\* ------------------------------------------------------- refresh, pure part
\* Variant: every fetch is issued twice.
make_tasks_twice(cs) ==
    [i \in 1 .. 2 * Len(cs) |->
        [latitude |-> cs[((i - 1) % Len(cs)) + 1].latitude,
         longitude |-> cs[((i - 1) % Len(cs)) + 1].longitude,
         state |-> "pending",
         value |-> None]]

\* The fetch_weather tasks for a list of city objects.
make_tasks(cs) ==
    [i \in 1 .. Len(cs) |->
        [latitude |-> cs[i].latitude,
         longitude |-> cs[i].longitude,
         state |-> "pending",
         value |-> None]]

\* The objects of query(City).all() as update_weather uses them: by id and
\* coordinates.
city_objects(table) ==
    LET cs == query_all(table)
    IN  [i \in 1 .. Len(cs) |->
            [id |-> cs[i].id,
             latitude |-> cs[i].latitude,
             longitude |-> cs[i].longitude]]

\* Variant: the tasks are created before the cooldown check.
update_weather_begin_tasks_first(table, t) ==
    IF ~check_update_cooldown(table, t)
    THEN [result |-> "CooldownActive", status_code |-> 400,
          cities |-> city_objects(table),
          tasks |-> make_tasks(city_objects(table))]
    ELSE IF city_objects(table) = <<>>
    THEN [result |-> "NoCities", status_code |-> 400,
          cities |-> <<>>, tasks |-> <<>>]
    ELSE [result |-> "pending", status_code |-> 0,
          cities |-> city_objects(table),
          tasks |-> make_tasks(city_objects(table))]

\* Variant: the empty city list is not checked.
update_weather_begin_no_empty_check(table, t) ==
    IF ~check_update_cooldown(table, t)
    THEN [result |-> "CooldownActive", status_code |-> 400,
          cities |-> <<>>, tasks |-> <<>>]
    ELSE [result |-> "pending", status_code |-> 0,
          cities |-> city_objects(table),
          tasks |-> make_tasks(city_objects(table))]

\* update_weather up to the await: the cooldown check, the read of the city
\* list and the creation of one fetch_weather task per city.
update_weather_begin(table, t) ==
    IF ~check_update_cooldown(table, t)
    THEN [result |-> "CooldownActive", status_code |-> 400,
          cities |-> <<>>, tasks |-> <<>>]
    ELSE IF city_objects(table) = <<>>
    THEN [result |-> "NoCities", status_code |-> 400,
          cities |-> <<>>, tasks |-> <<>>]
    ELSE [result |-> "pending", status_code |-> 0,
          cities |-> city_objects(table),
          tasks |-> make_tasks(city_objects(table))]

\* Variant: return_exceptions=True, the exceptions are not looked at.
gather_return_exceptions(ts, exc) ==
    [done |-> \A i \in 1 .. Len(ts) : ts[i].state = "done",
     raised |-> None,
     result |-> [i \in 1 .. Len(ts) |-> ts[i].value]]

\* Variant: done as soon as one task is done.
gather_first_completed(ts, exc) ==
    [done |-> exc # None \/ \E i \in 1 .. Len(ts) : ts[i].state = "done",
     raised |-> exc,
     result |-> [i \in 1 .. Len(ts) |-> ts[i].value]]

\* Variant: done only when every task has ended with a value.
gather_values_only(ts, exc) ==
    [done |-> \A i \in 1 .. Len(ts) :
                 ts[i].state = "done" /\ ts[i].value # None,
     raised |-> None,
     result |-> [i \in 1 .. Len(ts) |-> ts[i].value]]

\* asyncio.gather without return_exceptions: it is done as soon as a
\* task has raised (exc, the first exception raised by one of its tasks) or
\* when every task is done; its result lists the values in the order of the
\* tasks.
gather(ts, exc) ==
    [done |-> exc # None \/ \A i \in 1 .. Len(ts) : ts[i].state = "done",
     raised |-> exc,
     result |-> [i \in 1 .. Len(ts) |-> ts[i].value]]

\* Variant: the temperatures are paired with the cities in reverse order.
commit_batch_reversed(table, cs, temperatures, current_time) ==
    [id \in DOMAIN table |->
        IF \E i \in 1 .. Len(cs) : cs[i].id = id
        THEN LET i == CHOOSE k \in 1 .. Len(cs) : cs[k].id = id
             IN  [table[id] EXCEPT
                    !.temperature = temperatures[Len(cs) + 1 - i],
                    !.updated_at = Some(current_time)]
        ELSE table[id]]

\* Variant: updated_at is not assigned.
commit_batch_no_timestamp(table, cs, temperatures, current_time) ==
    [id \in DOMAIN table |->
        IF \E i \in 1 .. Len(cs) : cs[i].id = id
        THEN LET i == CHOOSE k \in 1 .. Len(cs) : cs[k].id = id
             IN  [table[id] EXCEPT !.temperature = temperatures[i]]
        ELSE table[id]]

\* Variant: the commit is inside the loop and only the first city's row is
\* written by the time the page is read.
commit_batch_first_only(table, cs, temperatures, current_time) ==
    [id \in DOMAIN table |->
        IF cs # <<>> /\ cs[1].id = id
        THEN [table[id] EXCEPT !.temperature = temperatures[1],
                               !.updated_at = Some(current_time)]
        ELSE table[id]]

\* for city, temp in zip(cities, temperatures): the two assignments, then
\* db.commit(), which writes every pending row in one transaction.
commit_batch(table, cs, temperatures, current_time) ==
    [id \in DOMAIN table |->
        IF \E i \in 1 .. Len(cs) : cs[i].id = id
        THEN LET i == CHOOSE k \in 1 .. Len(cs) : cs[k].id = id
             IN  [table[id] EXCEPT !.temperature = temperatures[i],
                                   !.updated_at = Some(current_time)]
        ELSE table[id]]

\* Variant: the time of the attempt is stored when the gather raises.
update_weather_end_stamps_failure(table, cs, g, t) ==
    IF g.raised # None
    THEN [result |-> "Failure",
          status_code |-> IF g.raised[1].type = "HTTPException"
                          THEN g.raised[1].status_code ELSE 500,
          table |-> [id \in DOMAIN table |->
                        IF \E i \in 1 .. Len(cs) : cs[i].id = id
                        THEN [table[id] EXCEPT !.updated_at = Some(t)]
                        ELSE table[id]]]
    ELSE IF \E i \in 1 .. Len(cs) : cs[i].id \notin DOMAIN table
    THEN [result |-> "Failure", status_code |-> 500, table |-> table]
    ELSE [result |-> "Success", status_code |-> 303,
          table |-> commit_batch(table, cs, g.result, t)]

\* update_weather from the return of the gather on.  An HTTPException is
\* raised again with its status code; any other exception leaves the handler
\* and the server answers 500.  The UPDATE of a row that is no longer in the
\* table makes the commit raise (StaleDataError) and nothing is written.
update_weather_end(table, cs, g, t) ==
    IF g.raised # None
    THEN [result |-> "Failure",
          status_code |-> IF g.raised[1].type = "HTTPException"
                          THEN g.raised[1].status_code ELSE 500,
          table |-> table]
    ELSE IF \E i \in 1 .. Len(cs) : cs[i].id \notin DOMAIN table
    THEN [result |-> "Failure", status_code |-> 500, table |-> table]
    ELSE [result |-> "Success", status_code |-> 303,
          table |-> commit_batch(table, cs, g.result, t)]

\* -------------------------------------------------------------- index page
\* ORDER BY temperature DESC NULLS LAST (rows of equal temperature in id
\* order): does row x come before row y?
Before(x, y) ==
    \/ x.temperature # None /\ y.temperature = None
    \/ /\ x.temperature # None /\ y.temperature # None
       /\ x.temperature[1] > y.temperature[1]
    \/ x.temperature = y.temperature /\ x.id < y.id

RECURSIVE OrderRows(_)
OrderRows(S) ==
    IF S = {} THEN <<>>
    ELSE LET first == CHOOSE x \in S : \A y \in S \ {x} : Before(x, y)
         IN  <<first>> \o OrderRows(S \ {first})

\* read_index: the list handed to the template.
read_index(table) ==
    LET rows == query_all(table)
    IN  OrderRows({rows[i] : i \in 1 .. Len(rows)})

\* ------------------------------------------------------------------- state
VARIABLES
    now,           \* the wall clock, datetime.now()
    DefaultCity,   \* table default_cities: sequence of rows
    City,          \* table cities: id -> row
    pc,            \* per refresh request: "idle", "gather" or "answered"
    cities,        \* per refresh request: the objects read by query(City).all()
    tasks,         \* per refresh request: its fetch_weather tasks
    first_exc,     \* per refresh request: the exception its gather holds
    resp,          \* the last answer sent: handler, HTTP status, outcome
    last_success   \* history, kept under SpecRecorded only: the time of
                   \* the last refresh that succeeded

vars == <<now, DefaultCity, City, pc, cities, tasks, first_exc, resp,
          last_success>>

Response(op, code, result) ==
    [op |-> op, status_code |-> code, result |-> result]

\* What the application finds on disk at its first start: no table has a row.
FreshDatabase == [City |-> <<>>, DefaultCity |-> <<>>]

\* startup_init: the default table is filled from the csv file when it is
\* empty, and an empty City table is filled from the default table.  When
\* that reset raises the application does not start.
startup_init(file, csv) ==
    LET defaults == IF file.DefaultCity # <<>> THEN file.DefaultCity
                    ELSE init_default_cities(csv)
        r == reset_cities_to_default(file.City, defaults)
    IN  [started |-> file.City # <<>> \/ ~r.raised,
         DefaultCity |-> defaults,
         City |-> IF file.City # <<>> THEN file.City ELSE r.table]

Init ==
    /\ now = 0
    /\ startup_init(FreshDatabase, EuropeCsv).started
    /\ DefaultCity = startup_init(FreshDatabase, EuropeCsv).DefaultCity
    /\ City = startup_init(FreshDatabase, EuropeCsv).City
    /\ pc = [r \in Requests |-> "idle"]
    /\ cities = [r \in Requests |-> <<>>]
    /\ tasks = [r \in Requests |-> <<>>]
    /\ first_exc = [r \in Requests |-> None]
    /\ resp = Response("none", 0, "none")
    /\ last_success = None

\* ------------------------------------------------------------------ actions
\* The wall clock advances.
Tick ==
    /\ \E d \in ClockSteps : now + d <= MaxTime /\ now' = now + d
    /\ UNCHANGED <<DefaultCity, City, pc, cities, tasks, first_exc, resp,
                   last_success>>

\* The Form(...) constraints of add_city.
add_city_valid(name, latitude, longitude) ==
    /\ 1 <= Len(name) /\ Len(name) <= 50
    /\ -90 <= latitude /\ latitude <= 90
    /\ -180 <= longitude /\ longitude <= 180

\* POST /cities/add with a name that is already in the table.
AddCityExists(name, latitude, longitude) ==
    /\ add_city_valid(name, latitude, longitude)
    /\ \E id \in DOMAIN City : City[id].name = strip(name)
    /\ resp' = Response("add_city", 400, "none")
    /\ UNCHANGED <<now, DefaultCity, City, pc, cities, tasks, first_exc,
                   last_success>>

\* Variant: the name is not looked up before the row is inserted.
AddCity_unchecked(name, latitude, longitude) ==
    /\ add_city_valid(name, latitude, longitude)
    /\ NextRowId(City) <= MaxId
    /\ City' = [id \in DOMAIN City \cup {NextRowId(City)} |->
                   IF id \in DOMAIN City THEN City[id]
                   ELSE [name |-> strip(name),
                         latitude |-> latitude,
                         longitude |-> longitude,
                         temperature |-> None,
                         updated_at |-> None]]
    /\ resp' = Response("add_city", 303, "none")
    /\ UNCHANGED <<now, DefaultCity, pc, cities, tasks, first_exc,
                   last_success>>

\* POST /cities/add: the new row has no temperature and no updated_at.
AddCity(name, latitude, longitude) ==
    /\ add_city_valid(name, latitude, longitude)
    /\ ~\E id \in DOMAIN City : City[id].name = strip(name)
    /\ NextRowId(City) <= MaxId
    /\ City' = [id \in DOMAIN City \cup {NextRowId(City)} |->
                   IF id \in DOMAIN City THEN City[id]
                   ELSE [name |-> strip(name),
                         latitude |-> latitude,
                         longitude |-> longitude,
                         temperature |-> None,
                         updated_at |-> None]]
    /\ resp' = Response("add_city", 303, "none")
    /\ UNCHANGED <<now, DefaultCity, pc, cities, tasks, first_exc,
                   last_success>>

\* POST /cities/remove/{city_id} for an id that is not in the table.
RemoveCityMissing(city_id) ==
    /\ city_id \notin DOMAIN City
    /\ resp' = Response("remove_city", 404, "none")
    /\ UNCHANGED <<now, DefaultCity, City, pc, cities, tasks, first_exc,
                   last_success>>

\* POST /cities/remove/{city_id}
RemoveCity(city_id) ==
    /\ city_id \in DOMAIN City
    /\ City' = [id \in DOMAIN City \ {city_id} |-> City[id]]
    /\ resp' = Response("remove_city", 303, "none")
    /\ UNCHANGED <<now, DefaultCity, pc, cities, tasks, first_exc,
                   last_success>>

\* POST /cities/reset
ResetCities ==
    LET r == reset_cities_to_default(City, DefaultCity)
    IN  /\ City' = r.table
        /\ resp' = Response("reset_cities", IF r.raised THEN 500 ELSE 303,
                            "none")
        /\ UNCHANGED <<now, DefaultCity, pc, cities, tasks, first_exc,
                       last_success>>

\* POST /cities/update answered before any fetch: the cooldown is active or
\* the city list is empty.
UpdateRefused(r) ==
    LET b == update_weather_begin(City, now)
    IN  /\ pc[r] = "idle"
        /\ b.result # "pending"
        /\ cities' = [cities EXCEPT ![r] = b.cities]
        /\ tasks' = [tasks EXCEPT ![r] = b.tasks]
        /\ resp' = Response("update_weather", b.status_code, b.result)
        /\ UNCHANGED <<now, DefaultCity, City, pc, first_exc, last_success>>

\* POST /cities/update up to the await of the gather.
UpdateFanOut(r) ==
    LET b == update_weather_begin(City, now)
    IN  /\ pc[r] = "idle"
        /\ b.result = "pending"
        /\ pc' = [pc EXCEPT ![r] = "gather"]
        /\ cities' = [cities EXCEPT ![r] = b.cities]
        /\ tasks' = [tasks EXCEPT ![r] = b.tasks]
        /\ UNCHANGED <<now, DefaultCity, City, first_exc, resp, last_success>>

\* One fetch_weather task ends.  The gather keeps the first exception raised
\* while update_weather still waits for it.
FetchSettle(r, i, response) ==
    /\ i \in 1 .. Len(tasks[r])
    /\ tasks[r][i].state = "pending"
    /\ LET f == fetch_weather(tasks[r][i].latitude, tasks[r][i].longitude,
                              response)
       IN  /\ tasks' = [tasks EXCEPT ![r][i].state = "done",
                                     ![r][i].value = f.value]
           /\ first_exc' = IF pc[r] = "gather" /\ first_exc[r] = None
                           THEN [first_exc EXCEPT ![r] = f.raised]
                           ELSE first_exc
    /\ UNCHANGED <<now, DefaultCity, City, pc, cities, resp, last_success>>

\* update_weather resumes when its gather is done, and answers.  Its tasks
\* that have not ended yet go on without it.
UpdateAnswer(r) ==
    LET g == gather(tasks[r], first_exc[r])
        e == update_weather_end(City, cities[r], g, now)
        over == \A i \in 1 .. Len(tasks[r]) : tasks[r][i].state = "done"
    IN  /\ pc[r] = "gather"
        /\ g.done
        /\ City' = e.table
        /\ resp' = Response("update_weather", e.status_code, e.result)
        /\ pc' = [pc EXCEPT ![r] = IF over THEN "idle" ELSE "answered"]
        /\ tasks' = [tasks EXCEPT ![r] = IF over THEN <<>> ELSE @]
        /\ cities' = [cities EXCEPT ![r] = <<>>]
        /\ first_exc' = [first_exc EXCEPT ![r] = None]
        /\ UNCHANGED <<now, DefaultCity>>

UpdateEnd(r) == UpdateAnswer(r) /\ UNCHANGED last_success

\* The same step, with the time of a success kept in the history variable.
UpdateEndRecorded(r) ==
    /\ UpdateAnswer(r)
    /\ last_success' = IF resp'.result = "Success" THEN Some(now)
                       ELSE last_success

\* Every task of an answered request has ended: nothing of it is left.
TasksOver(r) ==
    /\ pc[r] = "answered"
    /\ \A i \in 1 .. Len(tasks[r]) : tasks[r][i].state = "done"
    /\ pc' = [pc EXCEPT ![r] = "idle"]
    /\ tasks' = [tasks EXCEPT ![r] = <<>>]
    /\ UNCHANGED <<now, DefaultCity, City, cities, first_exc, resp,
                   last_success>>

\* Every step but the one in which update_weather answers after its gather.
Serve ==
    \/ Tick
    \/ \E name \in AddNames, latitude \in AddLatitudes,
          longitude \in AddLongitudes :
          \/ AddCityExists(name, latitude, longitude)
          \/ AddCity(name, latitude, longitude)
    \/ \E city_id \in 1 .. MaxId :
          \/ RemoveCityMissing(city_id)
          \/ RemoveCity(city_id)
    \/ ResetCities
    \/ \E r \in Requests :
          \/ UpdateRefused(r)
          \/ UpdateFanOut(r)
          \/ TasksOver(r)
          \/ \E i \in 1 .. MaxId, response \in Responses :
                FetchSettle(r, i, response)

Next == Serve \/ \E r \in Requests : UpdateEnd(r)

Spec == Init /\ [][Next]_vars

\* The same program with the history variable last_success kept up to date.
NextRecorded == Serve \/ \E r \in Requests : UpdateEndRecorded(r)

SpecRecorded == Init /\ [][NextRecorded]_vars

\* The event loop runs every callback that is ready: a fetch in flight ends
\* (by an answer, a failure or the expiry of its 10-second timeout) and a
\* handler whose gather is done resumes.
Fairness ==
    \A r \in Requests :
       /\ WF_vars(UpdateEnd(r))
       /\ WF_vars(\E i \in 1 .. MaxId, response \in Responses :
                     FetchSettle(r, i, response))

\* The refresh requests with the requests that take rows away under them.
NextLive ==
    \/ Tick
    \/ \E city_id \in 1 .. MaxId : RemoveCity(city_id)
    \/ ResetCities
    \/ \E r \in Requests :
          \/ UpdateRefused(r)
          \/ UpdateFanOut(r)
          \/ UpdateEnd(r)
          \/ TasksOver(r)
          \/ \E i \in 1 .. MaxId, response \in Responses :
                FetchSettle(r, i, response)

SpecLive == Init /\ [][NextLive]_vars /\ Fairness

\* A database file left by an earlier run: two cities, refreshed at time 0,
\* and a default table that has no row.
UsedDatabase ==
    [City |-> << [name |-> <<"a">>, latitude |-> 48, longitude |-> 2,
                  temperature |-> Some(Weather(48, 2)),
                  updated_at |-> Some(0)],
                 [name |-> <<"c">>, latitude |-> 41, longitude |-> 12,
                  temperature |-> Some(Weather(41, 12)),
                  updated_at |-> Some(0)] >>,
     DefaultCity |-> <<>>]

DatabaseFiles == {FreshDatabase, UsedDatabase}

\* europe.csv as shipped, and a file with the header line only.
CsvFiles == {EuropeCsv, <<>>}

\* The application starts on any of the database files with any of the csv
\* files; where startup_init raises there is no application.
InitReset ==
    /\ now = 0
    /\ \E file \in DatabaseFiles, csv \in CsvFiles :
          /\ startup_init(file, csv).started
          /\ DefaultCity = startup_init(file, csv).DefaultCity
          /\ City = startup_init(file, csv).City
    /\ pc = [r \in Requests |-> "idle"]
    /\ cities = [r \in Requests |-> <<>>]
    /\ tasks = [r \in Requests |-> <<>>]
    /\ first_exc = [r \in Requests |-> None]
    /\ resp = Response("none", 0, "none")
    /\ last_success = None

\* The requests that change the city list, and the clock.
NextReset ==
    \/ Tick
    \/ \E name \in AddNames, latitude \in AddLatitudes,
          longitude \in AddLongitudes :
          \/ AddCityExists(name, latitude, longitude)
          \/ AddCity(name, latitude, longitude)
    \/ \E city_id \in 1 .. MaxId :
          \/ RemoveCityMissing(city_id)
          \/ RemoveCity(city_id)
    \/ ResetCities

SpecReset == InitReset /\ [][NextReset]_vars

\* Refresh requests only, one more of them than under Spec, so that a
\* request can arrive while another one waits for its fetches; the history
\* variable is kept.
OverlapRequests == 1 .. NumRequests + 1

InitOverlap ==
    /\ now = 0
    /\ startup_init(FreshDatabase, EuropeCsv).started
    /\ DefaultCity = startup_init(FreshDatabase, EuropeCsv).DefaultCity
    /\ City = startup_init(FreshDatabase, EuropeCsv).City
    /\ pc = [r \in OverlapRequests |-> "idle"]
    /\ cities = [r \in OverlapRequests |-> <<>>]
    /\ tasks = [r \in OverlapRequests |-> <<>>]
    /\ first_exc = [r \in OverlapRequests |-> None]
    /\ resp = Response("none", 0, "none")
    /\ last_success = None

NextOverlap ==
    \/ Tick
    \/ \E r \in OverlapRequests :
          \/ UpdateRefused(r)
          \/ UpdateFanOut(r)
          \/ UpdateEndRecorded(r)
          \/ TasksOver(r)
          \/ \E i \in 1 .. MaxId, response \in Responses :
                FetchSettle(r, i, response)

SpecOverlap == InitOverlap /\ [][NextOverlap]_vars

\* ------------------------------------------------------------- properties
\* A step of refresh request r that starts update_weather.
StartsUpdate(r) == UpdateRefused(r) \/ UpdateFanOut(r)

\* A step in which refresh request r stops waiting for its gather.
EndsUpdate(r) == pc[r] = "gather" /\ pc'[r] # "gather"

\* A step taken by refresh request r or by one of its tasks.
StepOf(r) == pc'[r] # pc[r] \/ tasks'[r] # tasks[r]

\* Task i of request r has ended by raising.
HasFailed(r, i) == tasks[r][i].state = "done" /\ tasks[r][i].value = None

\* The ids of the cities request r read at the start of its cycle.
CycleIds(r) == {cities[r][i].id : i \in 1 .. Len(cities[r])}

\* The greatest updated_at that is set in the table.
MaxUpdatedAt(table) ==
    Max({table[id].updated_at[1] :
            id \in {k \in DOMAIN table : table[k].updated_at # None}})

\* C1: a refresh cycle writes to the City table only in a step taken when
\* every one of its fetches has ended with a temperature; so in a cycle in
\* which a fetch fails no step of the cycle, before or after the failure,
\* changes a row, whichever fetch fails and in whatever order the others end.
C1_AllOrNothing ==
    [][\A r \in Requests :
          StepOf(r) /\ City' # City
          => \A i \in 1 .. Len(tasks[r]) :
                tasks[r][i].state = "done" /\ tasks[r][i].value # None]_vars

\* C1 witness: the cycle has been answered with a failure, a sibling fetch
\* has ended with a temperature after that, and no row has been written.
C1_Witness ==
    \E r \in Requests :
       /\ pc[r] = "answered"
       /\ resp.result = "Failure"
       /\ \E i \in 1 .. Len(tasks[r]) : HasFailed(r, i)
       /\ \E i \in 1 .. Len(tasks[r]) : tasks[r][i].value # None
       /\ \A id \in DOMAIN City : City[id].temperature = None

C3_CooldownRejection ==
    [][\A r \in Requests :
          StartsUpdate(r) /\ ~check_update_cooldown(City, now)
          => /\ resp' = Response("update_weather", 400, "CooldownActive")
             /\ tasks' = tasks
             /\ pc' = pc
             /\ City' = City]_vars

\* C3 witness: the last answer is CooldownActive, the gate refuses and no
\* task exists.
C3_Witness ==
    /\ resp = Response("update_weather", 400, "CooldownActive")
    /\ ~check_update_cooldown(City, now)
    /\ \A r \in Requests : tasks[r] = <<>>

\* C4: when no city has an updated_at, the gate permits a refresh, for any
\* set of cities (the empty one too), now and at the ends of the clock.
C4_NoUpdateMeansPermitted ==
    (\A id \in DOMAIN City : City[id].updated_at = None)
    => \A t \in {0, now, MaxTime} : check_update_cooldown(City, t)

\* C4 witness: a refresh has passed the gate on a table whose cities all
\* lack an updated_at.
C4_Witness ==
    /\ DOMAIN City # {}
    /\ \A id \in DOMAIN City : City[id].updated_at = None
    /\ \E r \in Requests : pc[r] = "gather"

\* C5: when some city has an updated_at, the gate permits exactly when the
\* time elapsed since the greatest one is at least 900 seconds: it refuses at
\* 899 and permits at 900; cities without an updated_at do not count.
C5_GateIffElapsed ==
    (\E id \in DOMAIN City : City[id].updated_at # None)
    => /\ check_update_cooldown(City, now)
             <=> now - MaxUpdatedAt(City) >= 900
       /\ ~check_update_cooldown(City, MaxUpdatedAt(City) + 899)
       /\ check_update_cooldown(City, MaxUpdatedAt(City) + 900)

\* C5 witness: one city has an updated_at, another has none, and exactly
\* 900 seconds have elapsed.
C5_Witness ==
    /\ \E id \in DOMAIN City : City[id].updated_at = None
    /\ \E id \in DOMAIN City : City[id].updated_at # None
    /\ now - MaxUpdatedAt(City) = 900
    /\ check_update_cooldown(City, now)

\* C6: after a refresh has succeeded at time t, a refresh request that
\* arrives before t + 900 (the city list not being empty) is answered
\* CooldownActive, creates no task and changes no row.
C6_RejectedWithinWindow ==
    [][\A r \in Requests :
          /\ StartsUpdate(r)
          /\ last_success # None
          /\ now < last_success[1] + 900
          /\ DOMAIN City # {}
          => /\ resp'.result = "CooldownActive"
             /\ City' = City
             /\ tasks' = tasks]_vars

\* C7: a refresh request on an empty City table is answered NoCities with
\* status 400, creates no task and changes nothing else.
C7_NoCities ==
    [][\A r \in Requests :
          StartsUpdate(r) /\ DOMAIN City = {}
          => /\ resp' = Response("update_weather", 400, "NoCities")
             /\ UNCHANGED <<now, DefaultCity, City, pc, cities, tasks,
                            first_exc, last_success>>]_vars

\* C7 witness: the last answer is NoCities and the table is empty.
C7_Witness ==
    /\ resp = Response("update_weather", 400, "NoCities")
    /\ DOMAIN City = {}
    /\ \A r \in Requests : tasks[r] = <<>>

C11_MinimumIntervalBetweenCycles ==
    [][\A r \in DOMAIN pc :
          EndsUpdate(r) /\ resp'.result = "Success"
          => /\ last_success # None => now - last_success[1] >= 900
             /\ \A q \in DOMAIN pc \ {r} : pc[q] # "gather"]_vars

\* C12: adding a city leaves the answer of the cooldown gate as it was, now
\* and later, and the new city has no temperature; a refresh requested right
\* after an add, while the gate refuses, is answered CooldownActive and
\* leaves every row, the new one too, as it is.
C12_AddDoesNotResetCooldown ==
    [][/\ \A name \in AddNames, latitude \in AddLatitudes,
             longitude \in AddLongitudes :
             resp'.op = "add_city" /\ AddCity(name, latitude, longitude)
             => /\ \A t \in {now, MaxTime} :
                      check_update_cooldown(City', t)
                         <=> check_update_cooldown(City, t)
                /\ \A id \in DOMAIN City' \ DOMAIN City :
                      /\ City'[id].temperature = None
                      /\ City'[id].updated_at = None
       /\ \A r \in Requests :
             /\ resp = Response("add_city", 303, "none")
             /\ ~check_update_cooldown(City, now)
             /\ StartsUpdate(r)
             => /\ resp'.result = "CooldownActive"
                /\ City' = City]_vars

\* C12 witness: a city has been added after a refresh succeeded; it has no
\* temperature and the gate still refuses.
C12_Witness ==
    /\ resp = Response("add_city", 303, "none")
    /\ ~check_update_cooldown(City, now)
    /\ \E id \in DOMAIN City : City[id].updated_at = None
    /\ \E id \in DOMAIN City : City[id].updated_at = Some(now)

\* C13: a fetch that ends by the 10-second timeout surfaces from
\* fetch_weather as the failure any other transport failure gives, the
\* HTTPException with status 500, and the cycle that holds a failure answers
\* Failure and writes nothing.
C13_TimeoutIsNetworkError ==
    [][\A r \in Requests :
          /\ \A i \in 1 .. Len(tasks[r]), response \in Responses :
                /\ response.transport = "TimeoutError"
                /\ pc[r] = "gather" /\ first_exc[r] = None
                /\ FetchSettle(r, i, response)
                => /\ first_exc'[r] = Some(HTTPException(500))
                   /\ first_exc'[r] =
                         fetch_weather(tasks[r][i].latitude,
                                       tasks[r][i].longitude,
                                       [transport |-> "ClientError",
                                        status |-> 0,
                                        has_field |-> FALSE]).raised
          /\ EndsUpdate(r) /\ first_exc[r] # None
             => resp'.result = "Failure" /\ City' = City]_vars

\* C14: a fetch ends in exactly one way, decided by the service's answer: a
\* status other than 200 raises the HTTPException 503, a transport failure
\* (of any kind, the timeout too) raises the HTTPException 500, a 200 answer
\* without the temperature field raises the HTTPException 500, and a 200
\* answer with the field returns the temperature of the place.
C14_FetchClassification ==
    [][\A r \in Requests :
          \A i \in 1 .. Len(tasks[r]), response \in Responses :
             /\ pc[r] = "gather" /\ first_exc[r] = None
             /\ FetchSettle(r, i, response)
             => IF response.transport # "ok"
                THEN /\ first_exc'[r] = Some(HTTPException(500))
                     /\ tasks'[r][i].value = None
                ELSE IF response.status # 200
                THEN /\ first_exc'[r] = Some(HTTPException(503))
                     /\ tasks'[r][i].value = None
                ELSE IF ~response.has_field
                THEN /\ first_exc'[r] = Some(HTTPException(500))
                     /\ tasks'[r][i].value = None
                ELSE /\ first_exc'[r] = None
                     /\ tasks'[r][i].value =
                           Some(Weather(tasks[r][i].latitude,
                                        tasks[r][i].longitude))]_vars

\* C15: a refresh request that is not answered at once (CooldownActive or
\* NoCities) waits for its fetches and is then answered Success or Failure,
\* given that every fetch in flight ends; no request waits forever.
C15_RefreshCompletes ==
    /\ \A r \in Requests :
          pc[r] = "gather"
             ~> (pc[r] # "gather" /\ resp.result \in {"Success", "Failure"})
    /\ [][\A r \in Requests :
             /\ UpdateRefused(r)
                => resp'.result \in {"CooldownActive", "NoCities"}
             /\ EndsUpdate(r)
                => resp'.result \in {"Success", "Failure"}]_vars

\* C15 witness: a cycle one fetch of which failed has been answered and
\* nothing of it is left.
C15_Witness ==
    /\ resp = Response("update_weather", 500, "Failure")
    /\ \A r \in Requests : pc[r] = "idle" /\ tasks[r] = <<>>
    /\ now = MaxTime

\* C16: no step of a refresh cycle but the one that ends it with Success
\* changes the answer of the cooldown gate, now or later; so a cycle that
\* fails leaves the gate as it was and does not start the cooldown.
C16_FailureDoesNotStartCooldown ==
    [][\A r \in Requests :
          StepOf(r) /\ ~(EndsUpdate(r) /\ resp'.result = "Success")
          => \/ City' = City
             \/ \A t \in {now, MaxTime} :
                   check_update_cooldown(City', t)
                      <=> check_update_cooldown(City, t)]_vars

\* C16 witness: after a cycle was answered Failure the next refresh request
\* has passed the gate at the same time and waits for its fetches.
C16_Witness ==
    /\ resp.result = "Failure"
    /\ now = 0
    /\ \E r \in Requests :
          /\ pc[r] = "gather"
          /\ \A i \in 1 .. Len(tasks[r]) : tasks[r][i].state = "pending"

\* C17: the step in which a refresh passes the gate on a non-empty table
\* creates one pending fetch for each row of the table, in the order of the
\* rows and with the row's coordinates, each row being read once; and while
\* the tasks of a cycle exist none is added and one that has ended is never
\* started again, whether it failed or not.
C17_OneFetchPerCity ==
    [][\A r \in Requests :
          /\ pc'[r] # pc[r] /\ UpdateFanOut(r)
             => /\ Len(tasks'[r]) = Cardinality(DOMAIN City)
                /\ Len(cities'[r]) = Cardinality(DOMAIN City)
                /\ \A id \in DOMAIN City :
                      Cardinality({i \in 1 .. Len(cities'[r]) :
                                     cities'[r][i].id = id}) = 1
                /\ \A i \in 1 .. Len(tasks'[r]) :
                      /\ tasks'[r][i].state = "pending"
                      /\ tasks'[r][i].latitude =
                            City[cities'[r][i].id].latitude
                      /\ tasks'[r][i].longitude =
                            City[cities'[r][i].id].longitude
          /\ tasks[r] # <<>> /\ tasks'[r] # <<>>
             => /\ Len(tasks'[r]) = Len(tasks[r])
                /\ \A i \in 1 .. Len(tasks[r]) :
                      tasks[r][i].state = "done"
                      => tasks'[r][i] = tasks[r][i]]_vars

\* C17 witness: both fetches of a cycle on two cities have ended, the first
\* one by failing, and the cycle holds two tasks.
C17_Witness ==
    \E r \in Requests :
       /\ pc[r] = "gather"
       /\ Cardinality(DOMAIN City) = 2
       /\ Len(tasks[r]) = 2
       /\ HasFailed(r, 1)
       /\ tasks[r][2].state = "done" /\ tasks[r][2].value # None

\* C18: the step that ends a refresh cycle, whatever add, remove or reset
\* requests were served while its fetches were in flight, either leaves
\* every city then in the table with a temperature and the cycle's
\* updated_at, or changes no row.
C18_AllOrNothingAtCommit ==
    [][\A r \in Requests :
          EndsUpdate(r)
          => \/ City' = City
             \/ \A id \in DOMAIN City' :
                   /\ City'[id].temperature # None
                   /\ City'[id].updated_at = Some(now)]_vars

\* C19: no two rows of the City table have the same name, in any state;
\* and a POST /cities/add whose name, once stripped, is the name of a row is
\* answered 400 and leaves the table as it is.
C19_UniqueNames ==
    /\ [](\A i, j \in DOMAIN City : City[i].name = City[j].name => i = j)
    /\ [][\A name \in AddNames, latitude \in AddLatitudes,
             longitude \in AddLongitudes :
             /\ resp'.op = "add_city"
             /\ \E id \in DOMAIN City : City[id].name = strip(name)
             /\ \/ AddCityExists(name, latitude, longitude)
                \/ AddCity(name, latitude, longitude)
             => /\ resp' = Response("add_city", 400, "none")
                /\ City' = City]_vars

\* C19 witness: an add of " b" has been refused while the city b is in the
\* table.
C19_Witness ==
    /\ resp = Response("add_city", 400, "none")
    /\ \E id \in DOMAIN City : City[id].name = <<"b">>
    /\ \E name \in AddNames : name # strip(name) /\ strip(name) = <<"b">>

\* C20: a POST /cities/reset on a default table that has rows is answered
\* 303 and leaves in the City table exactly the default cities, in their
\* order, each without temperature and updated_at, so that the gate permits
\* a refresh at once; on an empty default table it is answered 500 and the
\* City table is as it was.
C20_ResetToDefaults ==
    [][ResetCities
       => IF DefaultCity # <<>>
          THEN /\ resp' = Response("reset_cities", 303, "none")
               /\ Len(query_all(City')) = Len(DefaultCity)
               /\ \A i \in 1 .. Len(DefaultCity) :
                     /\ query_all(City')[i].name = DefaultCity[i].name
                     /\ query_all(City')[i].latitude = DefaultCity[i].latitude
                     /\ query_all(City')[i].longitude =
                           DefaultCity[i].longitude
                     /\ query_all(City')[i].temperature = None
                     /\ query_all(City')[i].updated_at = None
               /\ check_update_cooldown(City', now)
          ELSE /\ resp' = Response("reset_cities", 500, "none")
               /\ City' = City]_vars

\* C20 witness: a reset has been answered 500 on an empty default table and
\* the cities, with their temperatures, are still there.
C20_Witness ==
    /\ resp = Response("reset_cities", 500, "none")
    /\ DefaultCity = <<>>
    /\ \E id \in DOMAIN City : City[id].temperature # None

====
